---- MODULE Spec2Model ----
(***************************************************************************)
(* Model of the inbound-message pipeline of assistant-runtime:             *)
(*   handlers/whatsapp.go  (webhook handler, processInbound, handleMessage)*)
(*   handlers/slack.go     (take-over callback)                            *)
(*   database              (conversation store, SQLite, one connection)    *)
(*   llm/deepseek.go       (model gateway)                                 *)
(* Every store call, every outbound call and every lock operation is one   *)
(* step of the goroutine that makes it; steps of different goroutines      *)
(* interleave freely.                                                      *)
(***************************************************************************)
EXTENDS Integers, Sequences, FiniteSets, TLC

\* ------------------------------------------------------------------ bounds
MaxReq == 2          \* POST /whatsapp/webhook requests in one behaviour
MaxReqTakeOver == 1  \* the same in a behaviour with take-over callbacks
MaxReqLive == 1      \* the same in a behaviour with fair scheduling
MaxReqLock == 2
MaxReqBatch == 2
MaxReqPanic == 2      \* the same in a fair behaviour of one conversation
MaxInFlight == 2     \* requests and callbacks being handled at the same time
MaxSlack == 1        \* POST /slack/interactive requests in one behaviour
MaxCallbacks == 2    \* the same in a behaviour made for the take-over callbacks
MaxFault == 1
MaxRows == 4
MaxLimit == 3        \* failed store calls and panics in one behaviour

Max(a, b) == IF a > b THEN a ELSE b

Reqs == 1..Max(Max(Max(MaxReq, MaxReqLock), Max(MaxReqTakeOver, MaxReqLive)),
               Max(MaxReqBatch, MaxReqPanic))
Slacks == 1..Max(MaxSlack, MaxCallbacks)

Phones == {"p1", "p2"}

\* ------------------------------------------------------- program constants
HistoryLimit == 20
ReplayWindow == 300
Now == 1000          \* time.Now().Unix() at the moment a callback is verified

UnsupportedText == <<"Sorry, I can only handle text messages right now.">>
PausedText == <<"Our team is handling your request directly. We'll be in touch shortly!">>
HoldingText == <<"I'm looking into that, one moment!">>
FallbackText == <<"Sorry, I ran into a technical issue. Our team will follow up with you shortly.">>
BookingLink == "You can pick a time for an on-site assessment here: https://bookings.clearoutspaces.ca/clearoutspaces/assessment"

MetaAppSecret == "app-secret"
SlackSigningSecret == "slack-secret"

NoMutex == <<>>
ZeroData == "zero"
NilResp == [nil |-> TRUE]

\* --------------------------------------------------------- keyed hashing
\* hmac.New(sha256.New, secret) over data, hex encoded: an injective
\* function of the key and of the exact bytes.
hmacHex(secret, data) == <<"hmac", secret, data>>

\* strings.TrimPrefix(s, prefix) on a header made of tokens
TrimPrefix(s, prefix) ==
    IF Len(s) > 0 /\ s[1] = prefix THEN Tail(s) ELSE s

verifyMetaSignature(secret, body, header) ==
    IF header = <<>> THEN FALSE
    ELSE LET expected == TrimPrefix(header, "sha256=")
             computed == <<hmacHex(secret, body)>>
         IN  computed = expected

metaSignature(secret, body) == <<"sha256=", hmacHex(secret, body)>>

\* ------------------------------------------------ GET /whatsapp/webhook
MetaVerifyToken == "verify-token"

\* the handshake: what is written for hub.mode, hub.verify_token, hub.challenge
VerifyWebhookAnyMode(mode, token, challenge, verifyToken) ==
    IF token = verifyToken
    THEN [code |-> 200, body |-> challenge]
    ELSE [code |-> 403, body |-> "forbidden\n"]

VerifyWebhook(mode, token, challenge, verifyToken) ==
    IF mode = "subscribe" /\ token = verifyToken
    THEN [code |-> 200, body |-> challenge]
    ELSE [code |-> 403, body |-> "forbidden\n"]

\* ------------------------------------------------------------ config.Load
\* env is the set of the environment variables that are set and not empty
Required ==
    { "META_VERIFY_TOKEN", "META_APP_SECRET", "META_ACCESS_TOKEN", "META_PHONE_NUMBER_ID",
      "DEEPSEEK_API_KEY", "SLACK_WEBHOOK_URL", "SLACK_SIGNING_SECRET" }

EnvNames == Required \cup {"DB_PATH"}

DefaultDBPath == "/data/db.sqlite"

Load(env) ==
    LET dbPath == IF "DB_PATH" \in env THEN "env:DB_PATH" ELSE DefaultDBPath
    IN  IF \E key \in Required : key \notin env
        THEN [cfg |-> "nil", err |-> TRUE]
        ELSE [cfg |-> dbPath, err |-> FALSE]

\* ----------------------------------------------------------------- store
\* conversations : phone -> "NONE" (no row) | "ACTIVE" | "PAUSED"
\* messages      : rows in insertion (rowid) order
\* quote_data    : phone -> <<>> (no row) | <<json_dump>>

UpsertConversationReset(convs, phone) == [convs EXCEPT ![phone] = "ACTIVE"]

UpsertConversation(convs, phone) ==
    IF convs[phone] = "NONE" THEN [convs EXCEPT ![phone] = "ACTIVE"] ELSE convs

GetConversationStatusDefault(convs, phone) ==
    [status |-> IF convs[phone] = "NONE" THEN "ACTIVE" ELSE convs[phone], err |-> FALSE]

GetConversationStatus(convs, phone) ==
    IF convs[phone] = "NONE" THEN [status |-> "", err |-> TRUE]
    ELSE [status |-> convs[phone], err |-> FALSE]

PauseConversationDelete(convs, phone) == [convs EXCEPT ![phone] = "NONE"]

PauseConversation(convs, phone) ==
    IF convs[phone] = "NONE" THEN convs ELSE [convs EXCEPT ![phone] = "PAUSED"]

MessageExists(msgs, id) == \E i \in DOMAIN msgs : msgs[i].id = id

\* INSERT INTO messages: fails on the PRIMARY KEY and on the FOREIGN KEY
InsertMessageNoKey(msgs, convs, m) ==
    IF convs[m.conversation_id] = "NONE"
    THEN [err |-> TRUE, msgs |-> msgs]
    ELSE [err |-> FALSE, msgs |-> Append(msgs, m)]

InsertMessageReplace(msgs, convs, m) ==
    IF convs[m.conversation_id] = "NONE"
    THEN [err |-> TRUE, msgs |-> msgs]
    ELSE IF MessageExists(msgs, m.id)
    THEN [err |-> FALSE, msgs |-> [i \in DOMAIN msgs |->
                                      IF msgs[i].id = m.id THEN m ELSE msgs[i]]]
    ELSE [err |-> FALSE, msgs |-> Append(msgs, m)]

InsertMessage(msgs, convs, m) ==
    IF MessageExists(msgs, m.id) \/ convs[m.conversation_id] = "NONE"
    THEN [err |-> TRUE, msgs |-> msgs]
    ELSE [err |-> FALSE, msgs |-> Append(msgs, m)]

RECURSIVE Reverse(_)
Reverse(s) == IF s = <<>> THEN <<>> ELSE Append(Reverse(Tail(s)), Head(s))

RECURSIVE TakeFirst(_, _)
TakeFirst(s, n) ==
    IF n = 0 \/ s = <<>> THEN <<>> ELSE <<Head(s)>> \o TakeFirst(Tail(s), n - 1)

\* the same query without the WHERE clause
GetRecentMessagesAll(msgs, conversationID, limit) ==
    Reverse(TakeFirst(Reverse(msgs), limit))

\* the same query with the rows taken in ascending order and not reversed
GetRecentMessagesOldest(msgs, conversationID, limit) ==
    TakeFirst(SelectSeq(msgs, LAMBDA m : m.conversation_id = conversationID), limit)

\* SELECT ... WHERE conversation_id = ? ORDER BY created_at DESC, rowid DESC
\* LIMIT ?, then reversed in place
GetRecentMessages(msgs, conversationID, limit) ==
    LET mine == SelectSeq(msgs, LAMBDA m : m.conversation_id = conversationID)
        desc == Reverse(mine)
    IN  Reverse(TakeFirst(desc, limit))

UpsertQuoteDataKeepFirst(quotes, convs, conversationID, jsonDump) ==
    IF convs[conversationID] = "NONE"
    THEN [err |-> TRUE, quotes |-> quotes]
    ELSE [err |-> FALSE,
          quotes |-> IF quotes[conversationID] # <<>> THEN quotes
                     ELSE [quotes EXCEPT ![conversationID] = <<jsonDump>>]]

UpsertQuoteData(quotes, convs, conversationID, jsonDump) ==
    IF convs[conversationID] = "NONE"
    THEN [err |-> TRUE, quotes |-> quotes]
    ELSE [err |-> FALSE, quotes |-> [quotes EXCEPT ![conversationID] = <<jsonDump>>]]

\* json.Marshal(llmResp.ExtractedData)
MarshalData(data) == <<"json", data>>

\* ------------------------------------------------------------- lock table
\* conversationLocks.LoadOrStore(phone, &sync.Mutex{}): fresh is the mutex
\* the caller allocated; the result is the mutex the table holds afterwards.
lockForFresh(locks, phone, fresh) ==
    [mu |-> fresh, locks |-> [locks EXCEPT ![phone] = fresh]]

\* Load in place of LoadOrStore: a mutex made for an absent key is not kept
lockForNoStore(locks, phone, fresh) ==
    IF locks[phone] # NoMutex
    THEN [mu |-> locks[phone], locks |-> locks]
    ELSE [mu |-> fresh, locks |-> locks]

lockForShared(locks, phone, fresh) ==
    [mu |-> <<"all", 0>>, locks |-> [locks EXCEPT ![phone] = <<"all", 0>>]]

lockFor(locks, phone, fresh) ==
    IF locks[phone] # NoMutex
    THEN [mu |-> locks[phone], locks |-> locks]
    ELSE [mu |-> fresh, locks |-> [locks EXCEPT ![phone] = fresh]]

\* ------------------------------------------------------------ model gateway
validActionAny(a) == TRUE

validAction(a) == a = "continue" \/ a = "handoff" \/ a = "schedule"

fallback ==
    [ReplyToUser |-> FallbackText, ExtractedData |-> ZeroData, Action |-> "continue"]

\* What the completion backend does with one request.
LLMFailures == {"transport", "status", "decode", "empty", "parse"}

LLMContents ==
    { [ReplyToUser |-> <<"hi">>, ExtractedData |-> "d1", Action |-> "continue"],
      [ReplyToUser |-> <<"hi">>, ExtractedData |-> "d1", Action |-> "handoff"],
      [ReplyToUser |-> <<"hi">>, ExtractedData |-> "d1", Action |-> "schedule"],
      [ReplyToUser |-> <<>>,     ExtractedData |-> "d1", Action |-> "bogus"] }

LLMOutcomes ==
    { [kind |-> k, content |-> fallback] : k \in LLMFailures }
    \cup { [kind |-> "ok", content |-> c] : c \in LLMContents }

CallNilOnError(outcome) ==
    IF outcome.kind # "ok"
    THEN [resp |-> NilResp, err |-> outcome.kind]
    ELSE [resp |-> outcome.content, err |-> ""]

CallUnvalidated(outcome) ==
    IF outcome.kind # "ok"
    THEN [resp |-> fallback, err |-> outcome.kind]
    ELSE [resp |-> outcome.content, err |-> ""]

Call(outcome) ==
    IF outcome.kind = "transport"
    THEN [resp |-> fallback, err |-> "llm: http call failed"]
    ELSE IF outcome.kind = "status"
    THEN [resp |-> fallback, err |-> "llm: unexpected status"]
    ELSE IF outcome.kind = "decode"
    THEN [resp |-> fallback, err |-> "llm: decode response"]
    ELSE IF outcome.kind = "empty"
    THEN [resp |-> fallback, err |-> "llm: empty choices"]
    ELSE IF outcome.kind = "parse"
    THEN [resp |-> fallback, err |-> "llm: parse JSON content"]
    ELSE LET parsed == outcome.content
             r1 == IF parsed.ReplyToUser = <<>>
                   THEN [parsed EXCEPT !.ReplyToUser = HoldingText] ELSE parsed
             r2 == IF ~validAction(r1.Action)
                   THEN [r1 EXCEPT !.Action = "continue"] ELSE r1
         IN  [resp |-> r2, err |-> ""]


\* ------------------------------------------------- escalation callback check
\* timestamp: [kind |-> "empty" | "junk" | "int", v |-> seconds]
slackBase(timestamp, body) == <<"v0", ":", timestamp, ":", body>>

slackSignature(secret, timestamp, body) ==
    <<"v0=", hmacHex(secret, slackBase(timestamp, body))>>

verifySlackSignatureNoReplay(signingSecret, timestamp, body, signature, now) ==
    IF timestamp.kind = "empty" \/ signature = <<>> THEN FALSE
    ELSE IF timestamp.kind = "junk" THEN FALSE
    ELSE slackSignature(signingSecret, timestamp, body) = signature

verifySlackSignature(signingSecret, timestamp, body, signature, now) ==
    IF timestamp.kind = "empty" \/ signature = <<>> THEN FALSE
    ELSE IF timestamp.kind = "junk" THEN FALSE
    ELSE IF now - timestamp.v > ReplayWindow THEN FALSE
    ELSE slackSignature(signingSecret, timestamp, body) = signature

\* ------------------------------------------------------------ inbound inputs
UnknownPhone == "p9"
ConvIds == Phones \cup {UnknownPhone}

WAMessage(from, id, type, hasText) ==
    [From |-> from, ID |-> <<id>>, Type |-> type, HasText |-> hasText]

\* A body is what json.Unmarshal makes of it: json = FALSE is a body that does
\* not parse; Entry is entries of changes of messages.
WAPayload(entries) == [json |-> TRUE, Entry |-> entries]

Payloads ==
    { [json |-> FALSE, Entry |-> <<>>],
      WAPayload(<<>>),
      WAPayload(<< << <<WAMessage("p1", "m1", "text", TRUE)>> >> >>),
      WAPayload(<< << <<WAMessage("p1", "m2", "text", TRUE)>> >> >>),
      WAPayload(<< << <<WAMessage("p1", "m3", "image", FALSE),
                        WAMessage("p2", "m1", "text", TRUE)>> >> >>) }

\* one callback that batches two text messages of one sender
TwoTexts ==
    WAPayload(<< << <<WAMessage("p1", "m1", "text", TRUE),
                      WAMessage("p1", "m2", "text", TRUE)>> >> >>)

\* one callback with a message of type "text" that has no text part
TextNoBody == WAPayload(<< << <<WAMessage("p2", "m2", "text", FALSE)>> >> >>)

\* one callback whose first change carries no message (a delivery receipt)
\* and whose second change carries a text message
ReceiptThenText ==
    WAPayload(<< << <<>>, <<WAMessage("p1", "m1", "text", TRUE)>> >> >>)

\* two callbacks that batch a text of each of two senders, the same two
\* messages in opposite order, in one change and in two
Batches ==
    { WAPayload(<< << <<WAMessage("p1", "m1", "text", TRUE),
                        WAMessage("p2", "m2", "text", TRUE)>> >> >>),
      WAPayload(<< << <<WAMessage("p2", "m2", "text", TRUE)>>,
                      <<WAMessage("p1", "m1", "text", TRUE)>> >> >>) }

Headers(body) ==
    { <<>>, metaSignature(MetaAppSecret, body), metaSignature("other-secret", body) }

RECURSIVE Concat(_)
Concat(ss) == IF ss = <<>> THEN <<>> ELSE Head(ss) \o Concat(Tail(ss))

\* the messages the three nested range loops of processInbound visit, in order
AllMessages(payload) ==
    Concat([e \in DOMAIN payload.Entry |-> Concat(payload.Entry[e])])

\* the guard of processInbound: TRUE when it returns before the loops
NoMessages(payload) ==
    \/ Len(payload.Entry) = 0
    \/ Len(payload.Entry[1]) = 0
    \/ Len(payload.Entry[1][1]) = 0

SlackUser == "alice"

SlackBody(form, actions) == [form |-> form, user |-> SlackUser, actions |-> actions]

SlackAction(id, value) == [action_id |-> id, value |-> value]

FreshTs == [kind |-> "int", v |-> Now - ReplayWindow]
StaleTs == [kind |-> "int", v |-> Now - ReplayWindow - 1]

TakeOver(p) == SlackBody("ok", <<SlackAction("take_over_chat", p)>>)

\* what a callback carries: correctly signed take-overs of a known and of an
\* unknown conversation, and a take-over signed too long ago
SlackInputs ==
    { [timestamp |-> FreshTs, body |-> TakeOver(p),
       signature |-> slackSignature(SlackSigningSecret, FreshTs, TakeOver(p))]
        : p \in {"p1", UnknownPhone} }
    \cup
    { [timestamp |-> StaleTs, body |-> TakeOver("p1"),
       signature |-> slackSignature(SlackSigningSecret, StaleTs, TakeOver("p1"))] }

\* correctly signed callbacks that are no take-over: one whose first action
\* is another button and whose second is the take-over, and one with no action
OtherInputs ==
    { [timestamp |-> FreshTs, body |-> SlackBody("ok", acts),
       signature |-> slackSignature(SlackSigningSecret, FreshTs, SlackBody("ok", acts))]
        : acts \in { <<SlackAction("view_quote", "p1"), SlackAction("take_over_chat", "p1")>>,
                     <<>> } }

EmptyTs == [kind |-> "empty", v |-> 0]
JunkTs == [kind |-> "junk", v |-> 0]

\* callbacks that must not pass the signature check: take-overs of a known
\* conversation with no timestamp, a timestamp that is no number, no
\* signature, a signature made with another secret, and a body without a
\* payload field signed with another secret
UnsignedInputs ==
    { [timestamp |-> ts, body |-> TakeOver("p1"),
       signature |-> slackSignature(SlackSigningSecret, ts, TakeOver("p1"))]
        : ts \in {EmptyTs, JunkTs} }
    \cup
    { [timestamp |-> FreshTs, body |-> TakeOver("p1"), signature |-> sig]
        : sig \in {<<>>, slackSignature("other-secret", FreshTs, TakeOver("p1"))} }
    \cup
    { [timestamp |-> FreshTs, body |-> SlackBody("nopayload", <<>>),
       signature |-> slackSignature("other-secret", FreshTs, SlackBody("nopayload", <<>>))] }

\* -------------------------------------------------------------------- state
VARIABLES
    conversations,      \* table conversations
    messages,           \* table messages
    quote_data,         \* table quote_data
    conversationLocks,  \* sync.Map phone -> *sync.Mutex
    locked,             \* the mutexes that are locked
    req,                \* per webhook request: handler and goroutine
    slack,              \* per escalation callback: handler
    llmCount,           \* per message identifier, the llm.Call invocations made for it
    clock,              \* time.Now().UnixNano() as a counter
    hostRunning,        \* the process has not been terminated
    faults,             \* the store calls that failed and the panics so far
    applied             \* the last call of a function that keeps no state

vars == <<conversations, messages, quote_data, conversationLocks, locked, req,
          slack, llmCount, clock, hostRunning, faults, applied>>

store == <<conversations, messages, quote_data>>

RECURSIVE SeqRange(_)
SeqRange(s) == IF s = <<>> THEN {} ELSE {Head(s)} \cup SeqRange(Tail(s))

\* the message identifiers a provider callback can carry
MsgIds == UNION { { m.ID : m \in SeqRange(AllMessages(p)) } : p \in Payloads }

NoOutcome == [kind |-> "none", content |-> fallback]

\* the locals of one handleMessage call; sends, notes and calls are the
\* sendWhatsApp, sendSlackHandoff and llm.Call calls it has made so far
NoLocals ==
    [mu |-> NoMutex, status |-> "", history |-> <<>>, out |-> NoOutcome,
     llmResp |-> NilResp, llmErr |-> "", sends |-> <<>>, notes |-> <<>>, calls |-> 0]

\* sig tells what the X-Hub-Signature-256 header of the request was: "missing",
\* "genuine" (made by the provider from the body and the app secret) or "forged"
IdleReq ==
    [pc |-> "idle", payload |-> WAPayload(<<>>), sig |-> "", resp |-> 0, idx |-> 0,
     loc |-> NoLocals]

SigKind(body, hdr) ==
    IF hdr = <<>> THEN "missing"
    ELSE IF hdr = metaSignature(MetaAppSecret, body) THEN "genuine" ELSE "forged"

NoSlackInput ==
    [timestamp |-> FreshTs, body |-> SlackBody("nopayload", <<>>), signature |-> <<>>]

IdleSlack == [pc |-> "idle", in |-> NoSlackInput, resp |-> 0, text |-> "", status |-> ""]

NotApplied == [fn |-> "none"]

Init ==
    /\ conversations = [p \in ConvIds |-> "NONE"]
    /\ messages = <<>>
    /\ quote_data = [p \in ConvIds |-> <<>>]
    /\ conversationLocks = [p \in Phones |-> NoMutex]
    /\ locked = {}
    /\ req = [r \in Reqs |-> IdleReq]
    /\ slack = [s \in Slacks |-> IdleSlack]
    /\ llmCount = [id \in MsgIds |-> 0]
    /\ clock = 0
    /\ hostRunning = TRUE
    /\ faults = 0
    /\ applied = NotApplied

\* ------------------------------------------------------------------ helpers
\* A store call fails (database is locked beyond the busy timeout, I/O error)
\* or not; MaxFault bounds the faults of one behaviour.
DbOutcomes == IF faults < MaxFault THEN BOOLEAN ELSE {FALSE}

Fault(dbErr) == faults' = faults + (IF dbErr THEN 1 ELSE 0)

Msg(r) == AllMessages(req[r].payload)[req[r].idx]
Phone(r) == Msg(r).From

\* pcs at which the goroutine of r is between mu.Lock() and mu.Unlock()
LockedPcs ==
    { "MessageExists", "UpsertConversation", "GetConversationStatus", "InsertPaused",
      "SendPaused", "InsertMessage", "GetRecentMessages", "Call", "InsertAssistant",
      "UpsertQuoteData", "sendSlackHandoff", "sendWhatsApp", "Unlock" }

\* pcs at which the goroutine of r is inside a handleMessage call
MessagePcs == LockedPcs \cup {"handleMessage", "lockFor", "Lock", "return"}

\* pcs of the detached goroutine while it runs
TaskPcs == MessagePcs \cup {"processInbound", "unwindUnlock", "unwindTask"}

\* pcs at which neither the handler nor the goroutine of r has a step left
EndPcs == {"returned", "done", "recovered", "crashed"}

\* the requests and callbacks that are being handled
InFlight ==
    Cardinality({ r \in Reqs : req[r].pc \notin EndPcs \cup {"idle"} })
    + Cardinality({ s \in Slacks : slack[s].pc \notin {"idle", "returned"} })

\* &sync.Mutex{}: an object that is none of the mutexes in use, named by the
\* phone it is made for and the least number that is free
MutexesInUse == { conversationLocks[p] : p \in Phones } \cup { req[r].loc.mu : r \in Reqs }

NewMutex(phone) ==
    <<phone, CHOOSE k \in 0..Cardinality(Reqs) :
                /\ <<phone, k>> \notin MutexesInUse
                /\ \A j \in 0..(k - 1) : <<phone, j>> \in MutexesInUse>>

SetPc(r, pc) == [req EXCEPT ![r].pc = pc]

\* the statement after a handleMessage call in the loops of processInbound
AfterMessage(q) ==
    IF q.idx < Len(AllMessages(q.payload))
    THEN [q EXCEPT !.pc = "handleMessage", !.idx = q.idx + 1, !.loc = NoLocals]
    ELSE [q EXCEPT !.pc = "done", !.idx = 0, !.loc = NoLocals,
                   !.payload = IdleReq.payload]

\* sendWhatsApp(cfg, to, body) called by the goroutine of r
Send(q, to, body) == [q EXCEPT !.loc.sends = Append(@, [to |-> to, body |-> body])]

\* ------------------------------------------- POST /whatsapp/webhook handler
\* program order of HandleWhatsAppMessage once the signature has verified:
\* w.WriteHeader(200), then the go statement
handlerNextGoFirst(pc) ==
    IF pc = "verify" THEN "go" ELSE "processInbound"

handlerNext(pc) ==
    IF pc = "verify" THEN "WriteHeader"
    ELSE IF pc = "WriteHeader" THEN "go"
    ELSE "processInbound"

\* what the handler does with a request whose signature does not verify
rejectSpawns == [pc |-> "go", resp |-> 403]

reject == [pc |-> "returned", resp |-> 403]

\* io.ReadAll, then verifyMetaSignature; requests take the slots in order
Handle(r, payloads) ==
    /\ hostRunning
    /\ req[r].pc = "idle"
    /\ r > 1 => req[r - 1].pc # "idle"
    /\ InFlight < MaxInFlight
    /\ \E body \in payloads, readable \in BOOLEAN :
         \E hdr \in Headers(body) :
           req' = [req EXCEPT ![r] =
                     IF ~readable
                     THEN [@ EXCEPT !.pc = "returned", !.resp = 400]
                     ELSE IF ~verifyMetaSignature(MetaAppSecret, body, hdr)
                     THEN [@ EXCEPT !.pc = reject.pc, !.resp = reject.resp,
                                    !.sig = SigKind(body, hdr)]
                     ELSE [@ EXCEPT !.pc = handlerNext("verify"), !.payload = body,
                                    !.sig = SigKind(body, hdr)]]
    /\ UNCHANGED <<applied, store, conversationLocks, locked, slack, llmCount, clock, hostRunning, faults>>

Receive(r) == Handle(r, Payloads)

\* the same for the deliveries of one text message of one sender
OneText == WAPayload(<< << <<WAMessage("p1", "m1", "text", TRUE)>> >> >>)

ReceiveOne(r) == Handle(r, {OneText})

\* the same, with the batch of two texts, the text without a text part and
\* the receipt followed by a text among the bodies
ReceiveBatch(r) == Handle(r, Batches)

\* the same for two text messages of one sender
SameSender ==
    { WAPayload(<< << <<WAMessage("p1", "m1", "text", TRUE)>> >> >>),
      WAPayload(<< << <<WAMessage("p1", "m2", "text", TRUE)>> >> >>) }

ReceiveSame(r) == Handle(r, SameSender)

ReceiveAny(r) == Handle(r, Payloads \cup {TwoTexts, TextNoBody, ReceiptThenText})

WriteHeader(r) ==
    /\ hostRunning
    /\ req[r].pc = "WriteHeader"
    /\ req' = [req EXCEPT ![r].pc = handlerNext("WriteHeader"), ![r].resp = 200]
    /\ UNCHANGED <<applied, store, conversationLocks, locked, slack, llmCount, clock, hostRunning, faults>>

\* the go statement: the goroutine starts at processInbound
Go(r) ==
    /\ hostRunning
    /\ req[r].pc = "go"
    /\ req' = SetPc(r, handlerNext("go"))
    /\ UNCHANGED <<applied, store, conversationLocks, locked, slack, llmCount, clock, hostRunning, faults>>

\* ------------------------------------------------------------ processInbound
ProcessInbound(r) ==
    /\ hostRunning
    /\ req[r].pc = "processInbound"
    /\ req' = [req EXCEPT ![r] =
                 IF ~@.payload.json \/ NoMessages(@.payload)
                 THEN [@ EXCEPT !.pc = "done", !.payload = IdleReq.payload]
                 ELSE [@ EXCEPT !.pc = "handleMessage", !.idx = 1]]
    /\ UNCHANGED <<applied, store, conversationLocks, locked, slack, llmCount, clock, hostRunning, faults>>

\* ------------------------------------------------------------- handleMessage
\* msg.Type != "text" || msg.Text == nil, negated
isPlainTextByType(msg) == msg.Type = "text"

isPlainText(msg) == msg.Type = "text" /\ msg.HasText

\* the type test; a message that is not text is answered and left
HandleMessage(r) ==
    /\ hostRunning
    /\ req[r].pc = "handleMessage"
    /\ req' = [req EXCEPT ![r] =
                 IF ~isPlainText(Msg(r))
                 THEN [Send(@, Msg(r).From, UnsupportedText) EXCEPT !.pc = "return"]
                 ELSE [@ EXCEPT !.pc = "lockFor"]]
    /\ UNCHANGED <<applied, store, conversationLocks, locked, slack, llmCount, clock, hostRunning, faults>>

\* the return of handleMessage on a message that is not text
Return(r) ==
    /\ hostRunning
    /\ req[r].pc = "return"
    /\ req' = [req EXCEPT ![r] = AfterMessage(@)]
    /\ UNCHANGED <<applied, store, conversationLocks, locked, slack, llmCount, clock, hostRunning, faults>>

LockFor(r) ==
    /\ hostRunning
    /\ req[r].pc = "lockFor"
    /\ LET res == lockFor(conversationLocks, Phone(r), NewMutex(Phone(r)))
       IN  /\ conversationLocks' = res.locks
           /\ req' = [req EXCEPT ![r].pc = "Lock", ![r].loc.mu = res.mu]
    /\ UNCHANGED <<applied, store, locked, slack, llmCount, clock, hostRunning, faults>>

\* mu.Lock(): blocks while the mutex is locked
Lock(r) ==
    /\ hostRunning
    /\ req[r].pc = "Lock"
    /\ req[r].loc.mu \notin locked
    /\ locked' = locked \cup {req[r].loc.mu}
    /\ req' = SetPc(r, "MessageExists")
    /\ UNCHANGED <<applied, store, conversationLocks, slack, llmCount, clock, hostRunning, faults>>

StepMessageExists(r) ==
    /\ hostRunning
    /\ req[r].pc = "MessageExists"
    /\ \E dbErr \in DbOutcomes : Fault(dbErr) /\
         req' = SetPc(r, IF dbErr \/ MessageExists(messages, Msg(r).ID)
                         THEN "Unlock" ELSE "UpsertConversation")
    /\ UNCHANGED <<applied, store, conversationLocks, locked, slack, llmCount, clock, hostRunning>>

StepUpsertConversation(r) ==
    /\ hostRunning
    /\ req[r].pc = "UpsertConversation"
    /\ \E dbErr \in DbOutcomes : Fault(dbErr) /\
         IF dbErr
         THEN /\ req' = SetPc(r, "Unlock")
              /\ UNCHANGED conversations
         ELSE /\ conversations' = UpsertConversation(conversations, Phone(r))
              /\ req' = SetPc(r, "GetConversationStatus")
    /\ UNCHANGED <<applied, messages, quote_data, conversationLocks, locked, slack, llmCount,
                   clock, hostRunning>>

StepGetConversationStatus(r) ==
    /\ hostRunning
    /\ req[r].pc = "GetConversationStatus"
    /\ \E dbErr \in DbOutcomes : Fault(dbErr) /\
         LET res == GetConversationStatus(conversations, Phone(r))
         IN  req' = [req EXCEPT ![r] =
                       IF dbErr \/ res.err
                       THEN [@ EXCEPT !.pc = "Unlock"]
                       ELSE [@ EXCEPT !.loc.status = res.status,
                                      !.pc = IF res.status = "PAUSED"
                                             THEN "InsertPaused" ELSE "InsertMessage"]]
    /\ UNCHANGED <<applied, store, conversationLocks, locked, slack, llmCount, clock, hostRunning>>

UserRow(r) ==
    [id |-> Msg(r).ID, conversation_id |-> Phone(r), role |-> "user",
     content |-> <<"body", Msg(r).ID>>]

\* PAUSED: _ = db.InsertMessage(...), the error is dropped
StepInsertPaused(r) ==
    /\ hostRunning
    /\ req[r].pc = "InsertPaused"
    /\ \E dbErr \in DbOutcomes : Fault(dbErr) /\
         messages' = IF dbErr THEN messages
                     ELSE InsertMessage(messages, conversations, UserRow(r)).msgs
    /\ req' = SetPc(r, "SendPaused")
    /\ UNCHANGED <<applied, conversations, quote_data, conversationLocks, locked, slack,
                   llmCount, clock, hostRunning>>

StepSendPaused(r) ==
    /\ hostRunning
    /\ req[r].pc = "SendPaused"
    /\ req' = [req EXCEPT ![r] = [Send(@, Phone(r), PausedText) EXCEPT !.pc = "Unlock"]]
    /\ UNCHANGED <<applied, store, conversationLocks, locked, slack, llmCount, clock, hostRunning, faults>>

StepInsertMessage(r) ==
    /\ hostRunning
    /\ req[r].pc = "InsertMessage"
    /\ \E dbErr \in DbOutcomes : Fault(dbErr) /\
         LET res == InsertMessage(messages, conversations, UserRow(r))
         IN  IF dbErr \/ res.err
             THEN /\ req' = SetPc(r, "Unlock")
                  /\ UNCHANGED messages
             ELSE /\ messages' = res.msgs
                  /\ req' = SetPc(r, "GetRecentMessages")
    /\ UNCHANGED <<applied, conversations, quote_data, conversationLocks, locked, slack,
                   llmCount, clock, hostRunning>>

StepGetRecentMessages(r) ==
    /\ hostRunning
    /\ req[r].pc = "GetRecentMessages"
    /\ \E dbErr \in DbOutcomes : Fault(dbErr) /\
         req' = [req EXCEPT ![r] =
                   IF dbErr THEN [@ EXCEPT !.pc = "Unlock"]
                   ELSE [@ EXCEPT !.pc = "Call",
                                  !.loc.history =
                                     GetRecentMessages(messages, Phone(r), HistoryLimit)]]
    /\ UNCHANGED <<applied, store, conversationLocks, locked, slack, llmCount, clock, hostRunning>>

\* what handleMessage does after llm.Call returned: with or without an error
\* it goes on to persist the reply
afterCallAbort(err) == IF err # "" THEN "Unlock" ELSE "InsertAssistant"

afterCall(err) == "InsertAssistant"

StepCall(r) ==
    /\ hostRunning
    /\ req[r].pc = "Call"
    /\ \E out \in LLMOutcomes :
         LET res == Call(out)
         IN  req' = [req EXCEPT ![r].pc = afterCall(res.err), ![r].loc.out = out,
                                ![r].loc.llmResp = res.resp, ![r].loc.llmErr = res.err,
                                ![r].loc.history = <<>>, ![r].loc.calls = @ + 1]
    /\ llmCount' = [llmCount EXCEPT ![Msg(r).ID] = @ + 1]
    /\ UNCHANGED <<applied, store, conversationLocks, locked, slack, clock, hostRunning, faults>>

\* assistantMsgID; llmResp.ReplyToUser on a nil llmResp is a nil dereference
StepInsertAssistant(r) ==
    /\ hostRunning
    /\ req[r].pc = "InsertAssistant"
    /\ IF req[r].loc.llmResp = NilResp
       THEN /\ req' = SetPc(r, "unwindUnlock")
            /\ UNCHANGED <<messages, clock>>
       ELSE /\ clock' = clock + 1
            /\ \E dbErr \in DbOutcomes : Fault(dbErr) /\
                 messages' =
                    IF dbErr THEN messages
                    ELSE InsertMessage(messages, conversations,
                            [id |-> <<"assistant", Phone(r), clock>>,
                             conversation_id |-> Phone(r), role |-> "assistant",
                             content |-> req[r].loc.llmResp.ReplyToUser]).msgs
            /\ req' = [req EXCEPT ![r].pc = "UpsertQuoteData", ![r].loc.out = NoOutcome,
                                  ![r].loc.llmErr = ""]
    /\ UNCHANGED <<applied, conversations, quote_data, conversationLocks, locked, slack,
                   llmCount, hostRunning>>

StepUpsertQuoteData(r) ==
    /\ hostRunning
    /\ req[r].pc = "UpsertQuoteData"
    /\ \E dbErr \in DbOutcomes : Fault(dbErr) /\
         quote_data' =
            IF dbErr THEN quote_data
            ELSE UpsertQuoteData(quote_data, conversations, Phone(r),
                                 MarshalData(req[r].loc.llmResp.ExtractedData)).quotes
    /\ req' = SetPc(r, IF req[r].loc.llmResp.Action = "handoff"
                       THEN "sendSlackHandoff" ELSE "sendWhatsApp")
    /\ UNCHANGED <<applied, conversations, messages, conversationLocks, locked, slack,
                   llmCount, clock, hostRunning>>

\* what handleMessage does after sendSlackHandoff returned: the error is
\* logged and the reply follows
afterHandoffAbort(ok) == IF ok THEN "sendWhatsApp" ELSE "Unlock"

afterHandoff(ok) == "sendWhatsApp"

\* the post to the escalation channel succeeds or fails
\* what the "handoff" case makes of the conversations table: it posts the
\* notification and calls no store function
handoffPauses(convs, phone) == PauseConversation(convs, phone)

handoff(convs, phone) == convs

StepSendSlackHandoff(r) ==
    /\ hostRunning
    /\ req[r].pc = "sendSlackHandoff"
    /\ \E ok \in BOOLEAN :
         req' = [req EXCEPT ![r].pc = afterHandoff(ok),
                            ![r].loc.notes = Append(@, [phone |-> Phone(r), ok |-> ok])]
    /\ conversations' = handoff(conversations, Phone(r))
    /\ UNCHANGED <<applied, messages, quote_data, conversationLocks, locked, slack, llmCount,
                   clock, hostRunning, faults>>

\* the text the switch on llmResp.Action sends
DispatchBodyVerbatim(llmResp) == llmResp.ReplyToUser

DispatchBody(llmResp) ==
    IF llmResp.Action = "schedule"
    THEN llmResp.ReplyToUser \o <<BookingLink>>
    ELSE llmResp.ReplyToUser

StepSendWhatsApp(r) ==
    /\ hostRunning
    /\ req[r].pc = "sendWhatsApp"
    /\ req' = [req EXCEPT ![r] =
                 [Send(@, Phone(r), DispatchBody(@.loc.llmResp)) EXCEPT !.pc = "Unlock"]]
    /\ UNCHANGED <<applied, store, conversationLocks, locked, slack, llmCount, clock, hostRunning, faults>>

\* mu.Unlock()
MutexUnlockNoop(held, mu) == held

MutexUnlock(held, mu) == held \ {mu}

\* defer mu.Unlock(), then the next message of the payload
Unlock(r) ==
    /\ hostRunning
    /\ req[r].pc = "Unlock"
    /\ locked' = MutexUnlock(locked, req[r].loc.mu)
    /\ req' = [req EXCEPT ![r] = AfterMessage(@)]
    /\ UNCHANGED <<applied, store, conversationLocks, slack, llmCount, clock, hostRunning, faults>>

\* ------------------------------------------------ POST /slack/interactive
\* signature check, form decoding, payload decoding and the action tests; at
\* pc "respond" the handler has written its response and is about to return
\* the test on the first action of the callback
isTakeOverAny(action) == TRUE

isTakeOver(action) == action.action_id = "take_over_chat"

SlackHandle(s, inputs) ==
    /\ hostRunning
    /\ slack[s].pc = "idle"
    /\ s > 1 => slack[s - 1].pc # "idle"
    /\ InFlight < MaxInFlight
    /\ \E in \in inputs :
         slack' = [slack EXCEPT ![s] =
            IF ~verifySlackSignature(SlackSigningSecret, in.timestamp, in.body,
                                     in.signature, Now)
            THEN [@ EXCEPT !.pc = "respond", !.in = in, !.resp = 403]
            ELSE IF in.body.form # "ok" \/ Len(in.body.actions) = 0
            THEN [@ EXCEPT !.pc = "respond", !.in = in, !.resp = 400]
            ELSE IF ~isTakeOver(in.body.actions[1])
            THEN [@ EXCEPT !.pc = "respond", !.in = in, !.resp = 200]
            ELSE [@ EXCEPT !.pc = "GetConversationStatus", !.in = in]]
    /\ UNCHANGED <<applied, store, conversationLocks, locked, req, llmCount, clock, hostRunning, faults>>

SlackReceive(s) == SlackHandle(s, SlackInputs)

\* the same, with the callbacks that must be rejected among the inputs
SlackReceiveAny(s) == SlackHandle(s, SlackInputs \cup UnsignedInputs \cup OtherInputs)

SlackPhone(s) == slack[s].in.body.actions[1].value

SlackGetConversationStatus(s) ==
    /\ hostRunning
    /\ slack[s].pc = "GetConversationStatus"
    /\ \E dbErr \in DbOutcomes : Fault(dbErr) /\
         LET res == GetConversationStatus(conversations, SlackPhone(s))
         IN  slack' = [slack EXCEPT ![s] =
                IF dbErr \/ res.err
                THEN [@ EXCEPT !.pc = "respond", !.resp = 200, !.text = "not found"]
                ELSE IF res.status = "PAUSED"
                THEN [@ EXCEPT !.pc = "respond", !.resp = 200, !.status = res.status,
                               !.text = "already paused"]
                ELSE [@ EXCEPT !.pc = "PauseConversation", !.status = res.status]]
    /\ UNCHANGED <<applied, store, conversationLocks, locked, req, llmCount, clock, hostRunning>>

SlackPauseConversation(s) ==
    /\ hostRunning
    /\ slack[s].pc = "PauseConversation"
    /\ \E dbErr \in DbOutcomes : Fault(dbErr) /\
         IF dbErr
         THEN /\ slack' = [slack EXCEPT ![s].pc = "respond", ![s].resp = 500]
              /\ UNCHANGED conversations
         ELSE /\ conversations' = PauseConversation(conversations, SlackPhone(s))
              /\ slack' = [slack EXCEPT ![s].pc = "respond", ![s].resp = 200,
                                        ![s].text = "paused by " \o slack[s].in.body.user]
    /\ UNCHANGED <<applied, messages, quote_data, conversationLocks, locked, req, llmCount,
                   clock, hostRunning>>

\* the handler returns; its request and response are gone
SlackReturn(s) ==
    /\ hostRunning
    /\ slack[s].pc = "respond"
    /\ slack' = [slack EXCEPT ![s] = [IdleSlack EXCEPT !.pc = "returned"]]
    /\ UNCHANGED <<applied, store, conversationLocks, locked, req, llmCount, clock, hostRunning, faults>>

\* ----------------------------------------------------- faults in a goroutine
\* A panic in the goroutine of r: the deferred calls run innermost first, the
\* deferred mu.Unlock() of handleMessage, then the deferred func of the go
\* statement.
\* where a panic raised at a statement goes first: to the deferred
\* mu.Unlock() when the statement is after the defer, else to the deferred
\* func of the go statement
unwindNoDefer(pc) == "unwindTask"

unwind(pc) == IF pc \in LockedPcs THEN "unwindUnlock" ELSE "unwindTask"

Panic(r) ==
    /\ hostRunning
    /\ faults < MaxFault
    /\ faults' = faults + 1
    /\ req[r].pc \in MessagePcs \cup {"processInbound"}
    /\ req' = SetPc(r, unwind(req[r].pc))
    /\ UNCHANGED <<applied, store, conversationLocks, locked, slack, llmCount, clock, hostRunning>>

UnwindUnlock(r) ==
    /\ hostRunning
    /\ req[r].pc = "unwindUnlock"
    /\ locked' = MutexUnlock(locked, req[r].loc.mu)
    /\ req' = SetPc(r, "unwindTask")
    /\ UNCHANGED <<applied, store, conversationLocks, slack, llmCount, clock, hostRunning, faults>>

\* the deferred func of the go statement: recover() stops the panic
taskBoundaryNoRecover == [pc |-> "crashed", host |-> FALSE]

taskBoundary == [pc |-> "recovered", host |-> TRUE]

Recover(r) ==
    /\ hostRunning
    /\ req[r].pc = "unwindTask"
    /\ req' = [req EXCEPT ![r] = [IdleReq EXCEPT !.pc = taskBoundary.pc, !.resp = req[r].resp,
                                                !.sig = req[r].sig]]
    /\ hostRunning' = taskBoundary.host
    /\ UNCHANGED <<applied, store, conversationLocks, locked, slack, llmCount, clock, faults>>

\* ------------------------------------------------------------ specifications
\* the steps of the webhook handler and of its goroutine that do not depend
\* on a take-over
\* the steps made for a text message
TextPipeline(r) ==
    \/ WriteHeader(r)
    \/ Go(r)
    \/ ProcessInbound(r)
    \/ HandleMessage(r)
    \/ LockFor(r)
    \/ Lock(r)
    \/ StepMessageExists(r)
    \/ StepUpsertConversation(r)
    \/ StepGetConversationStatus(r)
    \/ StepInsertMessage(r)
    \/ StepGetRecentMessages(r)
    \/ StepCall(r)
    \/ StepInsertAssistant(r)
    \/ StepUpsertQuoteData(r)
    \/ StepSendSlackHandoff(r)
    \/ StepSendWhatsApp(r)
    \/ Unlock(r)

Pipeline(r) == TextPipeline(r) \/ Return(r)

Webhook(r) == Receive(r) \/ Pipeline(r)

\* the steps of a goroutine that has read PAUSED
Paused(r) == StepInsertPaused(r) \/ StepSendPaused(r)

Callback(s) ==
    \/ SlackReceive(s)
    \/ SlackGetConversationStatus(s)
    \/ SlackPauseConversation(s)
    \/ SlackReturn(s)

Faults(r) == Panic(r) \/ UnwindUnlock(r) \/ Recover(r)

\* the whole server: webhook requests and take-over callbacks
Next ==
    \/ \E r \in 1..MaxReqTakeOver : Webhook(r)
    \/ \E r \in 1..MaxReqTakeOver : Paused(r)
    \/ \E s \in 1..MaxSlack : Callback(s)

Spec == Init /\ [][Next]_vars

\* the server as the escalation channel sees it: callbacks of every kind, one
\* after or beside the other, while messages arrive
CallbackAny(s) ==
    \/ SlackReceiveAny(s)
    \/ SlackGetConversationStatus(s)
    \/ SlackPauseConversation(s)
    \/ SlackReturn(s)

NextTakeOver ==
    \/ \E r \in 1..MaxReqTakeOver : ReceiveAny(r)
    \/ \E r \in 1..MaxReqTakeOver : Pipeline(r)
    \/ \E r \in 1..MaxReqTakeOver : Paused(r)
    \/ \E s \in 1..MaxCallbacks : CallbackAny(s)

SpecTakeOver == Init /\ [][NextTakeOver]_vars

\* the server while no take-over callback arrives: webhook requests only
NextWebhook == \E r \in 1..MaxReq : Webhook(r)

SpecWebhook == Init /\ [][NextWebhook]_vars

\* the same with a fault raised at any statement of a goroutine
NextPanic ==
    \/ \E r \in 1..MaxReq : Webhook(r)
    \/ \E r \in 1..MaxReq : Faults(r)

SpecPanic == Init /\ [][NextPanic]_vars

\* webhook requests only, every goroutine and handler scheduled again and
\* again: the Go scheduler is fair, every outbound call has a deadline
NextLive == \E r \in 1..MaxReqLive : Webhook(r)

FairSpec == Init /\ [][NextLive]_vars /\ \A r \in 1..MaxReqLive : WF_vars(Webhook(r))

\* deliveries of one message while a take-over callback arrives, every
\* goroutine scheduled again and again
NextLock ==
    \/ \E r \in 1..MaxReqLock : ReceiveOne(r)
    \/ \E r \in 1..MaxReqLock : TextPipeline(r)
    \/ \E r \in 1..MaxReqLock : Paused(r)
    \/ \E s \in 1..MaxSlack : Callback(s)

FairLockSpec ==
    /\ Init /\ [][NextLock]_vars
    /\ \A r \in 1..MaxReqLock : WF_vars(TextPipeline(r) \/ Paused(r))
    /\ \A s \in 1..MaxSlack : WF_vars(Callback(s))

\* callbacks that batch the messages of two senders in opposite order, beside
\* each other
NextBatch ==
    \/ \E r \in 1..MaxReqBatch : ReceiveBatch(r)
    \/ \E r \in 1..MaxReqBatch : TextPipeline(r)

SpecBatch == Init /\ [][NextBatch]_vars

\* messages of one sender with a fault raised at any statement of a
\* goroutine, every goroutine scheduled again and again; a fault is never
\* bound to happen
NextPanicLive ==
    \/ \E r \in 1..MaxReqPanic : ReceiveSame(r)
    \/ \E r \in 1..MaxReqPanic : TextPipeline(r)
    \/ \E r \in 1..MaxReqPanic : Faults(r)

FairPanicSpec ==
    /\ Init /\ [][NextPanicLive]_vars
    /\ \A r \in 1..MaxReqPanic : WF_vars(TextPipeline(r) \/ UnwindUnlock(r) \/ Recover(r))

\* the functions that keep no state, called with every input
Secrets == {MetaAppSecret, "other-secret"}

\* headers a caller can present for a body: none, the provider's, the bare hex
\* digest, the prefix alone, the digest under another prefix
HeaderForms(secret, body) ==
    { <<>>, <<"sha256=">>,
      <<"sha256=", hmacHex(secret, body)>>,
      <<hmacHex(secret, body)>>,
      <<"sha1=", hmacHex(secret, body)>> }

ApplyVerifyMetaSignature ==
    /\ \E secret \in Secrets, body \in Payloads :
         \E signer \in Secrets, signed \in Payloads :
           \E header \in HeaderForms(signer, signed) :
             applied' = [fn |-> "verifyMetaSignature", secret |-> secret, body |-> body,
                         header |-> header,
                         result |-> verifyMetaSignature(secret, body, header)]
    /\ UNCHANGED <<store, conversationLocks, locked, req, slack, llmCount, clock,
                   hostRunning, faults>>

ApplyVerifyWebhook ==
    /\ \E mode \in {"subscribe", "unsubscribe", ""},
          token \in {MetaVerifyToken, "wrong-token", ""},
          challenge \in {"abc123", "xyz"} :
         applied' = [fn |-> "VerifyWebhook", mode |-> mode, token |-> token,
                     challenge |-> challenge,
                     result |-> VerifyWebhook(mode, token, challenge, MetaVerifyToken)]
    /\ UNCHANGED <<store, conversationLocks, locked, req, slack, llmCount, clock,
                   hostRunning, faults>>

ApplyLoad ==
    /\ \E env \in SUBSET EnvNames :
         applied' = [fn |-> "Load", env |-> env, result |-> Load(env)]
    /\ UNCHANGED <<store, conversationLocks, locked, req, slack, llmCount, clock,
                   hostRunning, faults>>

\* the messages tables of up to MaxRows rows of two conversations; the row
\* at place i was the i-th to be inserted
Tables ==
    UNION { { [i \in 1..n |-> [id |-> <<"row", i>>, conversation_id |-> owner[i],
                               role |-> "user", content |-> <<"body", i>>]]
                : owner \in [1..n -> Phones] } : n \in 0..MaxRows }

ApplyGetRecentMessages ==
    /\ \E msgs \in Tables, conversationID \in Phones, limit \in 0..MaxLimit :
         applied' = [fn |-> "GetRecentMessages", msgs |-> msgs,
                     conversationID |-> conversationID, limit |-> limit,
                     result |-> GetRecentMessages(msgs, conversationID, limit)]
    /\ UNCHANGED <<store, conversationLocks, locked, req, slack, llmCount, clock,
                   hostRunning, faults>>

NextApply ==
    \/ ApplyVerifyMetaSignature
    \/ ApplyVerifyWebhook
    \/ ApplyLoad
    \/ ApplyGetRecentMessages

SpecApply == Init /\ [][NextApply]_vars

\* ================================================================ properties
Pc(r) == req[r].pc
Loc(r) == req[r].loc

Rows(id) == { i \in DOMAIN messages : messages[i].id = id }

\* C1: at most one handleMessage call at a time is between mu.Lock() and
\* mu.Unlock() for one phone number, and lockFor gives every caller of one
\* phone number the same mutex
C1_OneHandlerPerConversation ==
    \A r1, r2 \in Reqs :
        /\ (r1 # r2 /\ Pc(r1) \in LockedPcs /\ Pc(r2) \in LockedPcs)
              => Phone(r1) # Phone(r2)
        /\ (Loc(r1).mu # NoMutex /\ Loc(r2).mu # NoMutex /\ Phone(r1) = Phone(r2))
              => Loc(r1).mu = Loc(r2).mu

\* two messages of one sender: one is being handled, the other waits in mu.Lock()
C1_Witness ==
    \E r1, r2 \in Reqs :
        /\ Pc(r1) = "Call" /\ Pc(r2) = "Lock"
        /\ Phone(r1) = Phone(r2) /\ Loc(r1).mu = Loc(r2).mu

\* C2: however often and however concurrently one message identifier is
\* delivered, at most one row with it is stored and llm.Call is invoked at
\* most once for it
C2_AtMostOnce ==
    \A id \in MsgIds : Cardinality(Rows(id)) <= 1 /\ llmCount[id] <= 1

\* a delivery of an identifier the model was already invoked for has been
\* found a duplicate and is left without a store failure
C2_Witness ==
    \E r \in Reqs :
        /\ Pc(r) = "Unlock" /\ Loc(r).status = "" /\ faults = 0
        /\ llmCount[Msg(r).ID] = 1 /\ Cardinality(Rows(Msg(r).ID)) = 1

\* C3: llm.Call is invoked for a conversation only while its stored state is
\* ACTIVE
C3_NoModelCallWhilePaused ==
    [][\A r \in Reqs :
         (Pc(r) = "Call" /\ req'[r].loc.calls = Loc(r).calls + 1)
            => conversations[Phone(r)] = "ACTIVE"]_vars

\* C4: a handling that read PAUSED ends with the inbound message stored as a
\* user row and exactly one static reply sent, and it makes no model call, no
\* escalation, no assistant row and no extracted-data write
C4_PausedHandling ==
    /\ [](\A r \in Reqs :
            (Pc(r) = "Unlock" /\ Loc(r).status = "PAUSED")
               => /\ \E i \in DOMAIN messages : messages[i] = UserRow(r)
                  /\ Loc(r).sends = <<[to |-> Phone(r), body |-> PausedText]>>
                  /\ Loc(r).calls = 0
                  /\ Loc(r).notes = <<>>)
    /\ [][\A r \in Reqs :
            (Loc(r).status = "PAUSED" /\ req'[r] # req[r])
               => /\ quote_data' = quote_data
                  /\ messages' \in {messages, Append(messages, UserRow(r))}]_vars

\* C5 as stated: the handling of a new text message that read ACTIVE never ends
\* without a reply sent
C5_AlwaysReplies ==
    \A r \in Reqs :
        (Pc(r) = "Unlock" /\ Loc(r).status = "ACTIVE") => Len(Loc(r).sends) >= 1

\* C5 amended: once llm.Call has been invoked for a message, exactly one reply
\* is eventually sent, and it is the fallback text when the call failed
C5_RepliesAfterModelCall ==
    /\ \A r \in Reqs :
          (Pc(r) = "Call") ~> (Pc(r) = "Unlock" /\ Len(Loc(r).sends) = 1)
    /\ \A r \in Reqs :
          (Pc(r) = "InsertAssistant" /\ Loc(r).out.kind # "ok")
             ~> (/\ Pc(r) = "Unlock"
                 /\ Loc(r).sends = <<[to |-> Phone(r), body |-> FallbackText]>>)

\* the model call failed and the fallback text was sent
C5_Witness ==
    \E r \in Reqs :
        /\ Pc(r) = "Unlock" /\ Loc(r).calls = 1 /\ Loc(r).llmResp = fallback
        /\ Loc(r).sends = <<[to |-> Phone(r), body |-> FallbackText]>>

\* C6: the goroutine of a request runs only after the handler has answered 200,
\* and no step changes that answer
C6_AckBeforeProcessing ==
    /\ [](\A r \in Reqs : Pc(r) \in TaskPcs \cup {"done"} => req[r].resp = 200)
    /\ [](\A r \in Reqs : req[r].sig = "genuine" /\ req[r].resp # 0 => req[r].resp = 200)
    /\ [][\A r \in Reqs : req[r].resp = 200 => req'[r].resp = 200]_vars

\* acknowledged, and the goroutine has sent a reply since
C6_Witness ==
    \E r \in Reqs :
        /\ req[r].resp = 200 /\ Pc(r) = "Unlock" /\ Len(Loc(r).sends) = 1

\* C7: a request whose signature is missing or forged is answered 403, the
\* step that answers it changes nothing else, and nothing is ever done for it
C7_RejectedNotProcessed ==
    /\ [](\A r \in Reqs :
            req[r].sig \in {"missing", "forged"}
               => /\ req[r].resp = 403 /\ Pc(r) = "returned"
                  /\ Loc(r) = NoLocals /\ req[r].idx = 0)
    /\ [][\A r \in Reqs :
            (req[r].sig = "" /\ req'[r].sig \in {"missing", "forged"})
               => UNCHANGED <<store, conversationLocks, locked, llmCount, clock, slack>>]_vars

\* a forged request was rejected and a genuine one is being handled
C7_Witness ==
    \E r1, r2 \in Reqs :
        /\ req[r1].sig = "forged" /\ req[r1].resp = 403
        /\ req[r2].sig = "genuine" /\ Pc(r2) = "Call"

\* the mutexes that are locked are those held by goroutines still running
HeldMutexes == { Loc(r).mu : r \in { q \in Reqs : Pc(q) \in LockedPcs \cup {"unwindUnlock"} } }

\* C8: a panic in a goroutine does not end the process, and it leaves no mutex
\* locked that would stop the other goroutines
C8_PanicContained ==
    /\ hostRunning
    /\ locked = HeldMutexes
    /\ \A r \in Reqs : Pc(r) # "crashed"

\* one goroutine panicked and was recovered; another one holds the only
\* locked mutex and goes on
C8_Witness ==
    \E r1, r2 \in Reqs :
        /\ Pc(r1) = "recovered" /\ Pc(r2) \in LockedPcs /\ locked = {Loc(r2).mu}

\* C9: llm.Call returns a reply in every case: the fallback reply with an error
\* when the backend failed, a reply without an error when it did not
C9_CallNeverNil ==
    \A r \in Reqs :
        Pc(r) = "InsertAssistant" =>
            /\ Loc(r).llmResp # NilResp
            /\ Loc(r).out.kind # "ok" =>
                  /\ Loc(r).llmErr # ""
                  /\ Loc(r).llmResp =
                        [ReplyToUser |-> FallbackText, ExtractedData |-> ZeroData,
                         Action |-> "continue"]
            /\ Loc(r).out.kind = "ok" => Loc(r).llmErr = ""

\* the backend answered with content that does not parse
C9_Witness ==
    \E r \in Reqs : Pc(r) = "InsertAssistant" /\ Loc(r).out.kind = "parse"

\* C10: the reply the pipeline persists and dispatches has a text and one of
\* the three actions; an empty text became the holding message, an unknown
\* action became "continue"
C10_ReplyNormalized ==
    \A r \in Reqs :
        /\ Pc(r) \in {"InsertAssistant", "UpsertQuoteData", "sendSlackHandoff", "sendWhatsApp"}
              => /\ Loc(r).llmResp.ReplyToUser # <<>>
                 /\ Loc(r).llmResp.Action \in {"continue", "handoff", "schedule"}
        /\ (Pc(r) = "InsertAssistant" /\ Loc(r).out.kind = "ok")
              => /\ Loc(r).out.content.ReplyToUser = <<>>
                    => Loc(r).llmResp.ReplyToUser = HoldingText
                 /\ Loc(r).out.content.Action \notin {"continue", "handoff", "schedule"}
                    => Loc(r).llmResp.Action = "continue"

\* the model answered with no text and an unknown action, and the holding
\* message was sent
C10_Witness ==
    \E r \in Reqs :
        /\ Pc(r) = "Unlock" /\ Loc(r).calls = 1
        /\ Loc(r).sends = <<[to |-> Phone(r), body |-> HoldingText]>>

\* C11: a handling that made the model call ends with exactly one message sent
\* to the sender: the reply text followed by the booking link on "schedule",
\* the reply text as it is otherwise; the escalation channel is posted to
\* once, before the send, on "handoff" and not at all otherwise
C11_DispatchByAction ==
    \A r \in Reqs :
        LET a == Loc(r).llmResp.Action
            t == Loc(r).llmResp.ReplyToUser
        IN  /\ (Pc(r) = "Unlock" /\ Loc(r).calls = 1) =>
                  /\ Len(Loc(r).sends) = 1
                  /\ Loc(r).sends[1].to = Phone(r)
                  /\ a = "schedule" =>
                        /\ Loc(r).sends[1].body = t \o <<BookingLink>>
                        /\ Loc(r).notes = <<>>
                  /\ a = "handoff" =>
                        /\ Loc(r).sends[1].body = t
                        /\ Len(Loc(r).notes) = 1
                        /\ Loc(r).notes[1].phone = Phone(r)
                  /\ a \notin {"schedule", "handoff"} =>
                        /\ Loc(r).sends[1].body = t
                        /\ Loc(r).notes = <<>>
            /\ (Pc(r) = "sendWhatsApp" /\ a = "handoff") =>
                  Len(Loc(r).notes) = 1 /\ Loc(r).sends = <<>>
            /\ Pc(r) = "sendSlackHandoff" => a = "handoff" /\ Loc(r).sends = <<>>

\* a "schedule" turn ended with the reply and the booking link sent
C11_Witness ==
    \E r \in Reqs :
        /\ Pc(r) = "Unlock" /\ Loc(r).llmResp # NilResp
        /\ Loc(r).llmResp.Action = "schedule"
        /\ Loc(r).sends = <<[to |-> Phone(r), body |-> <<"hi", BookingLink>>]>>

\* C12: after a post to the escalation channel that failed, the handling goes
\* on to send the reply text to the sender and ends as every other
C12_HandoffFailureStillReplies ==
    \A r \in Reqs :
        (Len(Loc(r).notes) = 1 /\ ~Loc(r).notes[1].ok) =>
            \/ Pc(r) = "sendWhatsApp" /\ Loc(r).sends = <<>>
            \/ /\ Pc(r) = "Unlock"
               /\ Loc(r).sends = <<[to |-> Phone(r), body |-> Loc(r).llmResp.ReplyToUser]>>

\* the post failed and the reply was sent
C12_Witness ==
    \E r \in Reqs :
        /\ Pc(r) = "Unlock" /\ Len(Loc(r).notes) = 1 /\ ~Loc(r).notes[1].ok
        /\ Len(Loc(r).sends) = 1

\* the callback s is being handled
Handling(s) == slack[s].pc \notin {"idle", "returned"}

\* the handler of s leaves the statement it is at
Leaves(s, pc) == slack[s].pc = pc /\ slack'[s].pc # pc

Confirmation == "paused by " \o SlackUser

\* C13: a take-over callback that finds the conversation ACTIVE sets it to
\* PAUSED and answers 200 with the text that names the operator; one that
\* finds it PAUSED answers 200 "already paused" and writes nothing
C13_TakeOverIdempotent ==
    [][\A s \in Slacks :
         /\ Leaves(s, "GetConversationStatus") =>
               /\ conversations[SlackPhone(s)] = "ACTIVE"
                     => slack'[s].pc = "PauseConversation"
               /\ conversations[SlackPhone(s)] = "PAUSED"
                     => /\ slack'[s].pc = "respond" /\ slack'[s].resp = 200
                        /\ slack'[s].text = "already paused"
                        /\ UNCHANGED store
         /\ Leaves(s, "PauseConversation") =>
               /\ conversations'[SlackPhone(s)] = "PAUSED"
               /\ slack'[s].resp = 200 /\ slack'[s].text = Confirmation]_vars

\* C14: a correctly signed take-over of an identifier without a conversation
\* row is answered 200 "not found", and no step of its handler changes the
\* store
C14_UnknownConversation ==
    /\ [](\A s \in Slacks :
            slack[s].pc = "PauseConversation" => conversations[SlackPhone(s)] # "NONE")
    /\ [][\A s \in Slacks :
            /\ (Leaves(s, "GetConversationStatus") /\ conversations[SlackPhone(s)] = "NONE")
                  => /\ slack'[s].pc = "respond" /\ slack'[s].resp = 200
                     /\ slack'[s].text = "not found"
                     /\ UNCHANGED store
            /\ (Leaves(s, "idle") /\ slack'[s].pc = "GetConversationStatus")
                  => UNCHANGED store]_vars

\* the take-over of the unknown identifier got its answer, no store call failed
C14_Witness ==
    \E s \in Slacks :
        /\ slack[s].pc = "respond" /\ slack[s].text = "not found" /\ faults = 0
        /\ SlackPhone(s) = UnknownPhone
        /\ conversations[UnknownPhone] = "NONE"

\* what makes a callback one that must be rejected
BadAuth(in) ==
    \/ in.timestamp.kind \in {"empty", "junk"}
    \/ in.timestamp.v < Now - 300
    \/ in.signature = <<>>
    \/ in.signature # <<"v0=", hmacHex(SlackSigningSecret,
                                         <<"v0", ":", in.timestamp, ":", in.body>>)>>

\* C15: a callback with no, an unparsable or a too old timestamp, or with no
\* or a wrong signature, is answered 403 by the step that receives it, which
\* reads and writes nothing of the store, whatever its body is
C15_BadCallbackRejected ==
    /\ [](\A s \in Slacks :
            (Handling(s) /\ BadAuth(slack[s].in))
               => /\ slack[s].pc = "respond" /\ slack[s].resp = 403
                  /\ slack[s].text = "" /\ slack[s].status = "")
    /\ [][\A s \in Slacks :
            (Leaves(s, "idle") /\ BadAuth(slack'[s].in))
               => UNCHANGED <<store, faults, req, conversationLocks, locked>>]_vars

\* a callback whose hash is right and whose timestamp is 301 seconds old was
\* rejected
C15_Witness ==
    \E s \in Slacks :
        /\ slack[s].pc = "respond" /\ slack[s].resp = 403
        /\ slack[s].in.timestamp = StaleTs
        /\ slack[s].in.signature =
              slackSignature(SlackSigningSecret, StaleTs, slack[s].in.body)

\* C16: the text a take-over callback is answered with tells what happened:
\* the confirmation only if this step moved the conversation from ACTIVE to
\* PAUSED, "already paused" only if it was PAUSED, "not found" only if it has
\* no row
C16_AccurateStatusMessage ==
    [][\A s \in Slacks :
         (slack'[s].pc = "respond" /\ slack[s].pc \notin {"respond", "idle"}) =>
            /\ slack'[s].text = Confirmation
                  => /\ conversations[SlackPhone(s)] = "ACTIVE"
                     /\ conversations'[SlackPhone(s)] = "PAUSED"
            /\ slack'[s].text = "already paused"
                  => conversations[SlackPhone(s)] = "PAUSED"
            /\ slack'[s].text = "not found"
                  => conversations[SlackPhone(s)] = "NONE"]_vars

\* C17: no step takes a conversation from PAUSED to another state, from ACTIVE
\* to no row, or from no row to PAUSED
C17_OnlyActiveToPaused ==
    [][\A p \in ConvIds :
         /\ conversations[p] = "PAUSED" => conversations'[p] = "PAUSED"
         /\ conversations[p] = "ACTIVE" => conversations'[p] \in {"ACTIVE", "PAUSED"}
         /\ conversations[p] = "NONE" => conversations'[p] \in {"NONE", "ACTIVE"}]_vars

\* the create-if-absent step of a message has run on a PAUSED conversation
C17_Witness ==
    \E r \in Reqs :
        /\ Pc(r) = "GetConversationStatus" /\ conversations[Phone(r)] = "PAUSED"
        /\ req[r].idx = 2

\* the assistant rows of a conversation that carry a given text
AssistantRows(phone, text) ==
    { i \in DOMAIN messages :
        /\ messages[i].conversation_id = phone /\ messages[i].role = "assistant"
        /\ messages[i].content = text }

\* C18: when the handling of a new text message of an ACTIVE conversation
\* ends, whatever the other goroutines did meanwhile, the store holds the user
\* row of the message, an assistant row with the reply of the turn and the
\* extracted data of the turn (the identifier is that of no message of another
\* conversation)
C18_TurnStored ==
    \A r \in Reqs :
        (/\ Pc(r) = "Unlock" /\ Loc(r).status = "ACTIVE"
         /\ \A i \in Rows(Msg(r).ID) : messages[i].conversation_id = Phone(r))
           => /\ \E i \in DOMAIN messages : messages[i] = UserRow(r)
              /\ Loc(r).calls = 1
              /\ AssistantRows(Phone(r), Loc(r).llmResp.ReplyToUser) # {}
              /\ quote_data[Phone(r)] = <<MarshalData(Loc(r).llmResp.ExtractedData)>>

\* C20: a store call of handleMessage that fails is the last step of the
\* handling before the mutex is unlocked
C20_StoreFailureAborts ==
    [][\A r \in Reqs :
         (req'[r] # req[r] /\ Pc(r) \in LockedPcs /\ faults' = faults + 1)
            => req'[r].pc = "Unlock"]_vars

\* C19: a goroutine that has locked the mutex of a conversation unlocks it in
\* the end, whatever way handleMessage returns, so that a goroutine waiting in
\* mu.Lock() gets the mutex in the end; no mutex stays locked without a
\* goroutine that holds it
C19_LockReleased ==
    /\ \A r \in Reqs : (Pc(r) \in LockedPcs) ~> (Pc(r) \notin LockedPcs)
    /\ \A r \in Reqs : (Pc(r) = "Lock") ~> (Pc(r) = "MessageExists")
    /\ [](locked = { Loc(r).mu : r \in { q \in Reqs : Pc(q) \in LockedPcs } })

\* a delivery waits in mu.Lock() while the handling that holds the mutex is
\* in the PAUSED branch
C19_Witness ==
    \E r1, r2 \in Reqs :
        /\ Pc(r1) = "SendPaused" /\ Pc(r2) = "Lock"
        /\ Loc(r1).mu = Loc(r2).mu /\ Loc(r1).mu \in locked

\* C22: verifyMetaSignature is true exactly for the header "sha256=" followed
\* by the hex digest of the body under the secret
C22_MetaSignatureExact ==
    applied.fn = "verifyMetaSignature" =>
        (applied.result <=>
            applied.header = <<"sha256=", hmacHex(applied.secret, applied.body)>>)

\* C23: the handshake answers 200 with the challenge as the body exactly when
\* the mode is "subscribe" and the token is the configured one, and 403
\* without the challenge otherwise
C23_Handshake ==
    applied.fn = "VerifyWebhook" =>
        IF applied.mode = "subscribe" /\ applied.token = MetaVerifyToken
        THEN applied.result = [code |-> 200, body |-> applied.challenge]
        ELSE applied.result.code = 403 /\ applied.result.body # applied.challenge

\* the right token with another mode was refused
C23_Witness ==
    /\ applied.fn = "VerifyWebhook" /\ applied.token = MetaVerifyToken
    /\ applied.mode = "unsubscribe" /\ applied.result.code = 403

\* C29: config.Load returns an error exactly when one of the eight variables
\* is not set
C29_AllOptionsRequired ==
    applied.fn = "Load" => (applied.result.err <=> applied.env # EnvNames)

\* the messages of the callback of r that come after the one being handled
Pending(r) ==
    { AllMessages(req[r].payload)[j] :
        j \in (req[r].idx + 1)..Len(AllMessages(req[r].payload)) }

\* C21 as stated: no message waits for the handling of a message of another
\* conversation, batched in the same callback or not
C21_NeverWaitsForOtherConversation ==
    \A r \in Reqs :
        Pc(r) \in MessagePcs => \A msg \in Pending(r) : msg.From = Phone(r)

\* C21: a handling that waits at its mutex waits for a handling of the same
\* conversation; handlings of different conversations, arrived in different
\* callbacks, never wait for each other
C21_WaitsOnlyForOwnConversation ==
    \A r \in Reqs :
        (Pc(r) = "Lock" /\ Loc(r).mu \in locked) =>
            \E q \in Reqs \ {r} :
                /\ Pc(q) \in LockedPcs
                /\ Loc(q).mu = Loc(r).mu
                /\ Phone(q) = Phone(r)

\* two conversations are inside their locked sections at once, one of them
\* in the model call
C21_Witness ==
    \E r, q \in Reqs :
        /\ Pc(r) = "Call" /\ Pc(q) \in LockedPcs
        /\ Phone(r) # Phone(q)

\* C24: a conversation row appears only in the UpsertConversation step of the
\* handling of a new text message of that conversation, appears as ACTIVE,
\* and a row that exists is never removed
C24_ConversationCreatedOnce ==
    [][\A p \in ConvIds :
         /\ (conversations[p] = "NONE" /\ conversations'[p] # "NONE") =>
                /\ conversations'[p] = "ACTIVE"
                /\ \E r \in Reqs :
                      /\ Pc(r) = "UpsertConversation" /\ Phone(r) = p
                      /\ Msg(r).Type = "text" /\ Msg(r).HasText
                      /\ ~MessageExists(messages, Msg(r).ID)
                      /\ req'[r].pc = "GetConversationStatus"
         /\ conversations[p] # "NONE" => conversations'[p] # "NONE"]_vars

\* the row of a conversation was just created by the handling of its first
\* message
C24_Witness ==
    \E r \in Reqs :
        /\ Pc(r) = "GetConversationStatus"
        /\ conversations[Phone(r)] = "ACTIVE"
        /\ \A i \in DOMAIN messages : messages[i].conversation_id # Phone(r)

\* C25: the messages table only grows, by one row with an id no row has yet;
\* rows are never changed or removed; InsertMessage with an id that is stored
\* fails, leaves the table as it was and ends the handling
C25_MessagesAppendOnly ==
    [][/\ \/ messages' = messages
          \/ /\ Len(messages') = Len(messages) + 1
             /\ SubSeq(messages', 1, Len(messages)) = messages
             /\ ~MessageExists(messages, messages'[Len(messages')].id)
       /\ \A r \in Reqs :
             (/\ Pc(r) = "InsertMessage"
              /\ MessageExists(messages, Msg(r).ID)
              /\ req'[r] # req[r]) =>
                 /\ messages' = messages
                 /\ req'[r].pc = "Unlock"]_vars

\* the handling of a message is about to insert an id that another
\* conversation stored after this handling's duplicate test
C25_Witness ==
    \E r \in Reqs :
        /\ Pc(r) = "InsertMessage"
        /\ \E i \in DOMAIN messages :
              messages[i].id = Msg(r).ID /\ messages[i].conversation_id # Phone(r)

\* C26: a conversation has at most one quote_data row, and a write that does
\* not fail leaves the row holding the data of that write, whatever it held
C26_QuoteDataLatestWins ==
    [][/\ \A p \in ConvIds : Len(quote_data'[p]) <= 1
       /\ \A r \in Reqs :
             (Pc(r) = "UpsertQuoteData" /\ req'[r] # req[r] /\ faults' = faults) =>
                 quote_data' =
                    [quote_data EXCEPT ![Phone(r)] =
                        <<MarshalData(Loc(r).llmResp.ExtractedData)>>]]_vars

\* a write is about to replace a row that holds other data
C26_Witness ==
    \E r \in Reqs :
        /\ Pc(r) = "UpsertQuoteData"
        /\ quote_data[Phone(r)] # <<>>
        /\ quote_data[Phone(r)] # <<MarshalData(Loc(r).llmResp.ExtractedData)>>

\* C27 as stated: the stored extracted data of a conversation is written only
\* by a turn whose model call succeeded; a turn that got the fallback leaves
\* it as it was
C27_FallbackKeepsData ==
    [][\A r \in Reqs :
         (Pc(r) = "UpsertQuoteData" /\ Loc(r).llmResp = fallback) =>
             quote_data'[Phone(r)] = quote_data[Phone(r)]]_vars

\* C28: a correctly signed callback whose first action is not the take-over
\* is answered 200 by the step that receives it, one with no action is
\* answered 400 by that step, and that step reads and writes nothing of the
\* store and changes no state but the handler's own
C28_OtherActionNoEffect ==
    /\ [](\A s \in Slacks :
            (Handling(s) /\ ~BadAuth(slack[s].in) /\ slack[s].in.body.form = "ok") =>
                /\ slack[s].in.body.actions = <<>> =>
                      /\ slack[s].pc = "respond" /\ slack[s].resp = 400
                      /\ slack[s].text = "" /\ slack[s].status = ""
                /\ (/\ slack[s].in.body.actions # <<>>
                    /\ slack[s].in.body.actions[1].action_id # "take_over_chat") =>
                      /\ slack[s].pc = "respond" /\ slack[s].resp = 200
                      /\ slack[s].text = "" /\ slack[s].status = "")
    /\ [][\A s \in Slacks :
            (/\ Leaves(s, "idle") /\ ~BadAuth(slack'[s].in)
             /\ \/ slack'[s].in.body.actions = <<>>
                \/ slack'[s].in.body.actions[1].action_id # "take_over_chat")
               => UNCHANGED <<store, faults, req, conversationLocks, locked>>]_vars

\* a signed callback whose second action is the take-over of a conversation
\* that exists was acknowledged
C28_Witness ==
    \E s \in Slacks :
        /\ slack[s].pc = "respond" /\ slack[s].resp = 200
        /\ Len(slack[s].in.body.actions) = 2
        /\ slack[s].in.body.actions[2].action_id = "take_over_chat"
        /\ conversations[slack[s].in.body.actions[2].value] = "ACTIVE"

\* C30: the handling of a message whose type is not "text" or that has no
\* text part sends the unsupported-type reply to the sender once and returns:
\* it takes no mutex, makes no mutex, reads and writes nothing of the store
\* and does not call the model
C30_NonTextOnlyReplies ==
    /\ [](\A r \in Reqs :
            (/\ Pc(r) \in MessagePcs \ {"handleMessage"}
             /\ (Msg(r).Type # "text" \/ ~Msg(r).HasText)) =>
                /\ Pc(r) = "return"
                /\ Loc(r) = [NoLocals EXCEPT
                               !.sends = <<[to |-> Msg(r).From, body |-> UnsupportedText]>>])
    /\ [][\A r \in Reqs :
            (/\ Pc(r) \in {"handleMessage", "return"}
             /\ (Msg(r).Type # "text" \/ ~Msg(r).HasText)
             /\ req'[r] # req[r])
               => UNCHANGED <<store, faults, conversationLocks, locked, llmCount, slack>>]_vars

\* a message of type "text" without a text part was answered while its
\* conversation has no row
C30_Witness ==
    \E r \in Reqs :
        /\ Pc(r) = "return"
        /\ Msg(r).Type = "text" /\ ~Msg(r).HasText
        /\ conversations[Msg(r).From] = "NONE"

\* C31 as stated: processInbound returns without handling a message exactly
\* when the parsed payload holds no message in any entry and change, and
\* starts on the first message otherwise
C31_EveryMessageHandled ==
    [][\A r \in Reqs :
         (Pc(r) = "processInbound" /\ req[r].payload.json /\ req'[r] # req[r]) =>
             IF AllMessages(req[r].payload) = <<>>
             THEN req'[r].pc = "done"
             ELSE req'[r].pc = "handleMessage" /\ req'[r].idx = 1]_vars

\* C32 as stated: the mutex is held at the duplicate test and at every later
\* step, the user row is stored when the model is called, and the assistant
\* row and the extracted data of the turn are stored when the reply is
\* dispatched
C32_StepsInOrder ==
    \A r \in Reqs :
        /\ Pc(r) \in LockedPcs => Loc(r).mu \in locked
        /\ Pc(r) = "Call" => \E i \in DOMAIN messages : messages[i] = UserRow(r)
        /\ Pc(r) \in {"sendSlackHandoff", "sendWhatsApp"} =>
              /\ Loc(r).calls = 1
              /\ AssistantRows(Phone(r), Loc(r).llmResp.ReplyToUser) # {}
              /\ quote_data[Phone(r)] = <<MarshalData(Loc(r).llmResp.ExtractedData)>>

\* the places of the rows of a conversation that have fewer than n rows of
\* that conversation after them
Latest(msgs, conversationID, n) ==
    LET mine == { i \in DOMAIN msgs : msgs[i].conversation_id = conversationID }
    IN  { i \in mine : Cardinality({ j \in mine : j > i }) < n }

\* C33: GetRecentMessages returns the min(n, k) rows of the conversation that
\* were inserted last, the oldest of them first, and no row of another
\* conversation; for a conversation without rows it returns the empty list
C33_RecentMessages ==
    applied.fn = "GetRecentMessages" =>
        LET last == Latest(applied.msgs, applied.conversationID, applied.limit)
        IN  /\ Len(applied.result) = Cardinality(last)
            /\ \A j \in 1..Len(applied.result) :
                  \E i \in last :
                     /\ Cardinality({ k \in last : k < i }) = j - 1
                     /\ applied.result[j] = applied.msgs[i]

\* a conversation with more rows than the limit, among rows of another
\* conversation, was read with a limit of at least two
C33_Witness ==
    /\ applied.fn = "GetRecentMessages"
    /\ applied.limit >= 2 /\ Len(applied.result) = applied.limit
    /\ \E i, j \in DOMAIN applied.msgs :
          /\ i < j
          /\ applied.msgs[i].conversation_id = applied.conversationID
          /\ applied.msgs[j].conversation_id # applied.conversationID
          /\ applied.msgs[i] \notin SeqRange(applied.result)

Transcript(p) == SelectSeq(messages, LAMBDA m : m.conversation_id = p)

\* C35: while a handling is between the insert of its user row and the
\* insert of its assistant row, no other step inserts a row of the same
\* conversation, so an assistant row comes right after a user row in the
\* rows of its conversation
C35_TurnsNotInterleaved ==
    /\ [](\A p \in Phones :
            \A i \in DOMAIN Transcript(p) :
                Transcript(p)[i].role = "assistant" =>
                    i > 1 /\ Transcript(p)[i - 1].role = "user")
    /\ [][messages' # messages =>
            \A q \in Reqs :
                (/\ Pc(q) \in {"GetRecentMessages", "Call", "InsertAssistant"}
                 /\ Phone(q) = messages'[Len(messages')].conversation_id)
                   => /\ Pc(q) = "InsertAssistant" /\ req'[q] # req[q]
                      /\ messages'[Len(messages')].role = "assistant"]_vars

\* a handling has stored its user row and got the reply of the model while
\* another delivery of the same conversation waits for the mutex
C35_Witness ==
    \E r, q \in Reqs :
        /\ Pc(q) = "InsertAssistant" /\ Pc(r) = "Lock"
        /\ Phone(r) = Phone(q) /\ Msg(r).ID # Msg(q).ID
        /\ \E i \in DOMAIN messages : messages[i] = UserRow(q)

\* the goroutines that are between mu.Lock() and mu.Unlock()
Holders == { r \in Reqs : Pc(r) \in LockedPcs }

\* C36: every locked mutex is held by one goroutine that is inside the
\* handling of one message and every such goroutine holds one mutex, so a
\* goroutine that starts on the next message of its payload holds none; a
\* goroutine that waits for a mutex waits for a goroutine that does not wait
C36_OneLockPerTask ==
    /\ Cardinality(locked) = Cardinality(Holders)
    /\ locked = { Loc(r).mu : r \in Holders }
    /\ \A r \in Reqs :
          (Pc(r) = "Lock" /\ Loc(r).mu \in locked) =>
              \E q \in Holders : Loc(q).mu = Loc(r).mu

\* one goroutine is at the second message of its batch and waits for the
\* mutex that the other one holds for the first message of its own
C36_Witness ==
    \E r, q \in Reqs :
        /\ r # q
        /\ Pc(r) = "Lock" /\ req[r].idx = 2 /\ Loc(r).mu \in locked
        /\ Pc(q) \in LockedPcs /\ req[q].idx = 1 /\ Loc(q).mu = Loc(r).mu

\* C37: no step of a turn whose action is "handoff" writes the conversations
\* table; a conversation goes from ACTIVE to PAUSED only in the
\* PauseConversation step of a take-over callback for it; and a message that
\* reads ACTIVE goes on to the insert of its user row and to the model
C37_HandoffKeepsActive ==
    /\ [][\A r \in Reqs :
            (/\ Pc(r) \in {"UpsertQuoteData", "sendSlackHandoff", "sendWhatsApp", "Unlock"}
             /\ Loc(r).llmResp # NilResp /\ Loc(r).llmResp.Action = "handoff"
             /\ req'[r] # req[r])
               => conversations' = conversations]_vars
    /\ [][\A p \in ConvIds :
            (conversations[p] = "ACTIVE" /\ conversations'[p] = "PAUSED") =>
                \E s \in Slacks :
                    /\ slack[s].pc = "PauseConversation" /\ slack'[s].pc = "respond"
                    /\ SlackPhone(s) = p]_vars
    /\ [][\A r \in Reqs :
            (/\ Pc(r) = "GetConversationStatus" /\ conversations[Phone(r)] = "ACTIVE"
             /\ req'[r] # req[r] /\ faults' = faults)
               => req'[r].pc = "InsertMessage"]_vars

\* the notification of a handoff turn was posted, the conversation is still
\* ACTIVE and the next message of the same sender is about to be handled
C37_Witness ==
    \E r \in Reqs :
        /\ Pc(r) = "Unlock" /\ Loc(r).llmResp # NilResp
        /\ Loc(r).llmResp.Action = "handoff"
        /\ Loc(r).notes = <<[phone |-> Phone(r), ok |-> TRUE]>>
        /\ conversations[Phone(r)] = "ACTIVE"
        /\ \E msg \in Pending(r) : msg.From = Phone(r)

\* C38: when the deferred func of the go statement recovers a panic, every
\* locked mutex is held by a goroutine that is still running, so the mutex
\* the panicking handling held was unlocked before; and a goroutine that waits
\* in mu.Lock() gets the mutex in the end or is itself unwound
C38_PanicReleasesLock ==
    /\ [][\A r \in Reqs :
            (Pc(r) = "unwindTask" /\ req'[r].pc # "unwindTask") =>
                /\ req'[r].pc = "recovered"
                /\ locked = HeldMutexes /\ locked' = locked]_vars
    /\ \A r \in Reqs :
          (Pc(r) = "Lock") ~> (Pc(r) \in {"MessageExists", "unwindTask"})

\* a handling panicked while it held the mutex of the conversation and a
\* later message of the same conversation waits in mu.Lock() for that mutex
C38_Witness ==
    \E r, q \in Reqs :
        /\ Pc(q) = "unwindUnlock" /\ Pc(r) = "Lock"
        /\ Loc(r).mu = Loc(q).mu /\ Loc(q).mu \in locked
        /\ Msg(r).ID # Msg(q).ID

====
